---- MODULE Spec2Model ----
(***************************************************************************)
(* Theme preference store (ThemeProvider, useTheme) and the two dropdown   *)
(* pickers (unnamed/part_001 and components/ui/ThemeToggle).               *)
(*                                                                         *)
(* React state is modelled as a committed value plus a pending update:     *)
(* a setState call records the pending value, Render commits every pending *)
(* value at once and schedules the effects whose dependencies changed.     *)
(* Scheduled effects run in order, clean-ups first, as one uninterrupted   *)
(* flush, and always before the next render.                               *)
(***************************************************************************)
EXTENDS Naturals, Sequences, FiniteSets

VARIABLES
    theme,            \* ThemeProvider: committed `theme` state
    resolvedTheme,    \* ThemeProvider: committed `resolvedTheme` state
    pendingTheme,     \* value given to setThemeState, not yet rendered
    pendingResolved,  \* value given to setResolvedTheme, not yet rendered
    effects,          \* scheduled effects of the last commit, in run order
    flushing,         \* TRUE while the scheduled effects are being run
    listeners,        \* 'change' handlers on the media query (captured theme)
    rootClasses,      \* theme classes on document.documentElement
    storage,          \* localStorage value under key "theme"
    osDark,           \* matchMedia('(prefers-color-scheme: dark)').matches
    notifs,           \* 'change' events raised by the OS, not yet dispatched
    mounted,          \* the provider (and the pickers below it) is mounted
    isOpen,           \* per picker: committed `isOpen` state
    pendingOpen,      \* per picker: <<value>> given to setIsOpen, not yet rendered
    docListeners,     \* pickers whose 'mousedown' handler is on the document
    pressed,          \* element that received the last mousedown, until click
    hook,             \* last call of useTheme: scope, context seen, outcome
    lastSet           \* history: argument of the latest setTheme call

vars == <<theme, resolvedTheme, pendingTheme, pendingResolved, effects, flushing,
          listeners, rootClasses, storage, osDark, notifs, mounted, isOpen,
          pendingOpen, docListeners, pressed, hook, lastSet>>

providerVars == <<theme, resolvedTheme, pendingTheme, pendingResolved, listeners,
                  rootClasses, storage, lastSet>>

pickerVars == <<isOpen, pendingOpen, docListeners, pressed>>

----------------------------------------------------------------------------
(* Bounds *)

MaxNotifs == 2

----------------------------------------------------------------------------
(* Values *)

Themes == {"light", "dark", "system"}

Markers == {"light", "dark"}

\* absent key: localStorage.getItem returns null
Null == "null"

\* no setState call since the last render
NoUpdate == "noupdate"

\* strings a browser may hold under the key: absent, empty, valid, foreign
StoredValues == {Null, "", "light", "dark", "system", "blue"}

\* the two picker implementations
Pickers == {"part_001", "ui"}

NoTarget == [picker |-> "none", el |-> "none"]

OutsideTarget == [picker |-> "none", el |-> "page"]

ButtonOf(p) == [picker |-> p, el |-> "button"]

ItemOf(p, v) == [picker |-> p, el |-> v]

\* elements that exist in the committed DOM
Rendered(t) ==
    \/ t = OutsideTarget
    \/ /\ mounted
       /\ t.picker \in Pickers
       /\ \/ t.el = "button"
          \/ t.el \in Themes /\ isOpen[t.picker]

Targets == {OutsideTarget} \cup {ButtonOf(p) : p \in Pickers}
              \cup {ItemOf(p, v) : p \in Pickers, v \in Themes}

Undefined == [defined |-> FALSE]

ErrorMessage == "useTheme must be used within a ThemeProvider"

Effect(k, a) == [kind |-> k, arg |-> a]

----------------------------------------------------------------------------
(* Pure helpers *)

\* variant: the clean-up does not remove the handler
RemoveOne_Noop(seq, x) == seq

RECURSIVE RemoveOne(_, _)
\* removeEventListener: drops the one registration of this handler
RemoveOne(seq, x) ==
    IF seq = <<>> THEN <<>>
    ELSE IF Head(seq) = x THEN Tail(seq)
    ELSE <<Head(seq)>> \o RemoveOne(Tail(seq), x)

\* variant: the list of accepted values lacks 'dark'
IsValidTheme_MissingDark(savedTheme) ==
    /\ savedTheme # Null
    /\ savedTheme # ""
    /\ savedTheme \in {"light", "system"}

\* variant: any non-empty stored string is adopted
IsValidTheme_Truthy(savedTheme) ==
    /\ savedTheme # Null
    /\ savedTheme # ""

\* savedTheme && ['light', 'dark', 'system'].includes(savedTheme)
IsValidTheme(savedTheme) ==
    /\ savedTheme # Null
    /\ savedTheme # ""
    /\ savedTheme \in {"light", "dark", "system"}

\* variant: the captured theme itself is passed on, system included
updateResolvedTheme_Raw(t) == t

\* variant: the OS is queried whatever the captured theme is
updateResolvedTheme_AlwaysOS(t) ==
    IF osDark THEN "dark" ELSE "light"

\* the value updateResolvedTheme passes to setResolvedTheme, for the theme
\* captured by the effect closure
updateResolvedTheme(t) ==
    IF t = "system"
    THEN (IF osDark THEN "dark" ELSE "light")
    ELSE t

\* variant: the guard on the captured theme is inverted
handler_Inverted(t, pr) ==
    IF t # "system" THEN updateResolvedTheme(t) ELSE pr

\* variant: no guard, the handler applies the OS appearance itself
handler_Unguarded(t, pr) ==
    IF osDark THEN "dark" ELSE "light"

\* the 'change' handler of the closure that captured theme t; pr is the
\* pending resolvedTheme update before the call, the result the one after
handler(t, pr) ==
    IF t = "system" THEN updateResolvedTheme(t) ELSE pr

RECURSIVE Dispatch(_, _)
\* dispatch of one 'change' event to the registered handlers, in order
Dispatch(ls, pr) ==
    IF ls = <<>> THEN pr
    ELSE Dispatch(Tail(ls), handler(Head(ls), pr))

\* the value of ThemeContext seen by a consumer
ContextValue(scope) ==
    IF scope = "inside" /\ mounted
    THEN [defined |-> TRUE, theme |-> theme, resolvedTheme |-> resolvedTheme,
          setTheme |-> "setTheme"]
    ELSE Undefined

\* variant: the undefined check is missing
useTheme_NoGuard(context) ==
    [threw |-> FALSE, message |-> "", value |-> context]

useTheme(context) ==
    IF ~context.defined
    THEN [threw |-> TRUE, message |-> ErrorMessage, value |-> Undefined]
    ELSE [threw |-> FALSE, message |-> "", value |-> context]

\* dropdownRef.current.contains(event.target) for picker p
Contains(p, target) == target.picker = p

\* variant: the contains() test is missing
handleClickOutside_Always(p, target, po) == <<FALSE>>

\* the isOpen update handleClickOutside of picker p leaves pending
handleClickOutside(p, target, po) ==
    IF ~Contains(p, target) THEN <<FALSE>> ELSE po

----------------------------------------------------------------------------
(* What the pickers render from the context value *)

\* picker of unnamed/part_001: getIcon(), a switch on the raw theme
getIcon(t) ==
    CASE t = "light" -> "Sun"
      [] t = "dark" -> "Moon"
      [] t = "system" -> "Monitor"
      [] OTHER -> "none"

\* components/ui picker: resolvedTheme === 'dark' ? Moon : Sun
currentIcon(resolved) == IF resolved = "dark" THEN "Moon" ELSE "Sun"

\* the icon inside the toggle button of picker p
ButtonIcon(p) ==
    IF p = "part_001" THEN getIcon(theme) ELSE currentIcon(resolvedTheme)

\* variant: the option of the applied appearance is marked
isSelected_Resolved(value) == resolvedTheme = value

\* components/ui picker: const isSelected = theme === option.value
isSelected(value) == theme = value

\* picker of unnamed/part_001: the class condition written out per option
optionActive(value) ==
    CASE value = "light" -> theme = "light"
      [] value = "dark" -> theme = "dark"
      [] value = "system" -> theme = "system"

\* the options of picker p rendered with the highlight classes
Highlighted(p) ==
    {v \in Themes : IF p = "part_001" THEN optionActive(v) ELSE isSelected(v)}

----------------------------------------------------------------------------
(* Initial state: the first render has committed, its effects are scheduled *)

MountEffects ==
    << Effect("clickOutside", "part_001"), Effect("clickOutside", "ui"),
       Effect("restore", "-"), Effect("resolve", "system"),
       Effect("apply", "light") >>

Init ==
    /\ theme = "system"
    /\ resolvedTheme = "light"
    /\ pendingTheme = NoUpdate
    /\ pendingResolved = NoUpdate
    /\ effects = MountEffects
    /\ flushing = FALSE
    /\ listeners = <<>>
    /\ rootClasses = {}
    /\ storage \in StoredValues
    /\ osDark \in BOOLEAN
    /\ notifs = 0
    /\ mounted = TRUE
    /\ isOpen = [p \in Pickers |-> FALSE]
    /\ pendingOpen = [p \in Pickers |-> <<>>]
    /\ docListeners = {}
    /\ pressed = NoTarget
    /\ hook = [scope |-> "none", context |-> Undefined,
               result |-> [threw |-> FALSE, message |-> "", value |-> Undefined]]
    /\ lastSet = "none"

----------------------------------------------------------------------------
(* Effects *)

EffectDue(k) ==
    /\ mounted
    /\ effects # <<>>
    /\ Head(effects).kind = k

EffectDone ==
    /\ effects' = Tail(effects)
    /\ flushing' = (Tail(effects) # <<>>)

\* useEffect(() => { ... getItem ... setThemeState(savedTheme) }, [])
RestoreEffect ==
    /\ EffectDue("restore")
    /\ pendingTheme' = IF IsValidTheme(storage) THEN storage ELSE pendingTheme
    /\ EffectDone
    /\ UNCHANGED <<theme, resolvedTheme, pendingResolved, listeners, rootClasses,
                   storage, osDark, notifs, mounted, hook, lastSet>>
    /\ UNCHANGED pickerVars

\* return () => mediaQuery.removeEventListener('change', handler)
ResolveCleanup ==
    /\ EffectDue("cleanup")
    /\ listeners' = RemoveOne(listeners, Head(effects).arg)
    /\ EffectDone
    /\ UNCHANGED <<theme, resolvedTheme, pendingTheme, pendingResolved,
                   rootClasses, storage, osDark, notifs, mounted, hook, lastSet>>
    /\ UNCHANGED pickerVars

\* useEffect(() => { updateResolvedTheme(); ... addEventListener }, [theme])
ResolveEffect ==
    /\ EffectDue("resolve")
    /\ pendingResolved' = updateResolvedTheme(Head(effects).arg)
    /\ listeners' = Append(listeners, Head(effects).arg)
    /\ EffectDone
    /\ UNCHANGED <<theme, resolvedTheme, pendingTheme, rootClasses, storage,
                   osDark, notifs, mounted, hook, lastSet>>
    /\ UNCHANGED pickerVars

\* variant: the previous classes are not removed
ApplyClasses_NoRemove(classes, resolved) == classes \cup {resolved}

\* root.classList.remove('light', 'dark'); root.classList.add(resolvedTheme)
ApplyClasses(classes, resolved) ==
    (classes \ {"light", "dark"}) \cup {resolved}

ApplyEffect ==
    /\ EffectDue("apply")
    /\ rootClasses' = ApplyClasses(rootClasses, Head(effects).arg)
    /\ EffectDone
    /\ UNCHANGED <<theme, resolvedTheme, pendingTheme, pendingResolved, listeners,
                   storage, osDark, notifs, mounted, hook, lastSet>>
    /\ UNCHANGED pickerVars

\* document.addEventListener('mousedown', handleClickOutside), per picker
ClickOutsideEffect ==
    /\ EffectDue("clickOutside")
    /\ docListeners' = docListeners \cup {Head(effects).arg}
    /\ EffectDone
    /\ UNCHANGED providerVars
    /\ UNCHANGED <<osDark, notifs, mounted, hook, isOpen, pendingOpen, pressed>>

----------------------------------------------------------------------------
(* Render: commits the pending state and schedules the effects whose      *)
(* dependency changed (clean-ups first, then the effects in hook order)   *)

Committed(pending, current) == IF pending = NoUpdate THEN current ELSE pending

CommittedOpen(pending, current) ==
    IF pending = <<>> THEN current ELSE pending[Len(pending)]

ScheduledEffects(oldTheme, newTheme, oldResolved, newResolved) ==
    (IF newTheme # oldTheme
     THEN <<Effect("cleanup", oldTheme), Effect("resolve", newTheme)>>
     ELSE <<>>)
    \o
    (IF newResolved # oldResolved
     THEN <<Effect("apply", newResolved)>>
     ELSE <<>>)

Render ==
    /\ mounted
    /\ effects = <<>>
    /\ \/ pendingTheme # NoUpdate
       \/ pendingResolved # NoUpdate
       \/ \E p \in Pickers : pendingOpen[p] # <<>>
    /\ theme' = Committed(pendingTheme, theme)
    /\ resolvedTheme' = Committed(pendingResolved, resolvedTheme)
    /\ isOpen' = [p \in Pickers |-> CommittedOpen(pendingOpen[p], isOpen[p])]
    /\ pendingTheme' = NoUpdate
    /\ pendingResolved' = NoUpdate
    /\ pendingOpen' = [p \in Pickers |-> <<>>]
    /\ effects' = ScheduledEffects(theme, theme', resolvedTheme, resolvedTheme')
    /\ UNCHANGED <<flushing, listeners, rootClasses, storage, osDark, notifs,
                   mounted, docListeners, pressed, hook, lastSet>>

\* the provider's scope ends: the clean-ups of the effects run
Unmount ==
    /\ mounted
    /\ effects = <<>>
    /\ mounted' = FALSE
    /\ listeners' = RemoveOne(listeners, theme)
    /\ docListeners' = {}
    /\ pendingTheme' = NoUpdate
    /\ pendingResolved' = NoUpdate
    /\ pendingOpen' = [p \in Pickers |-> <<>>]
    /\ isOpen' = [p \in Pickers |-> FALSE]
    /\ pressed' = NoTarget
    /\ UNCHANGED <<theme, resolvedTheme, effects, flushing, rootClasses, storage,
                   osDark, notifs, hook, lastSet>>

----------------------------------------------------------------------------
(* Events.  Each handler runs to completion; none runs inside a flush.    *)

\* variant: the state is updated, the write to localStorage is missing
setTheme_NoPersist(newTheme) ==
    /\ pendingTheme' = newTheme
    /\ storage' = storage

\* setTheme: setThemeState(newTheme); localStorage.setItem('theme', newTheme)
setTheme(newTheme) ==
    /\ pendingTheme' = newTheme
    /\ storage' = newTheme

\* the OS appearance flips and raises a 'change' event on the media query
OsChange ==
    /\ ~flushing
    /\ notifs < MaxNotifs
    /\ osDark' = ~osDark
    /\ notifs' = notifs + 1
    /\ UNCHANGED providerVars
    /\ UNCHANGED pickerVars
    /\ UNCHANGED <<effects, flushing, mounted, hook>>

\* one raised 'change' event is dispatched to the registered handlers
OsNotification ==
    /\ ~flushing
    /\ notifs > 0
    /\ notifs' = notifs - 1
    /\ pendingResolved' = Dispatch(listeners, pendingResolved)
    /\ UNCHANGED <<theme, resolvedTheme, pendingTheme, listeners, rootClasses,
                   storage, osDark, effects, flushing, mounted, hook, lastSet>>
    /\ UNCHANGED pickerVars

\* 'mousedown' on a rendered element: every registered handleClickOutside runs
MouseDown(target) ==
    /\ ~flushing
    /\ pressed = NoTarget
    /\ Rendered(target)
    /\ pendingOpen' = [p \in Pickers |->
                         IF p \in docListeners
                         THEN handleClickOutside(p, target, pendingOpen[p])
                         ELSE pendingOpen[p]]
    /\ pressed' = target
    /\ UNCHANGED providerVars
    /\ UNCHANGED <<isOpen, docListeners, effects, flushing, osDark, notifs,
                   mounted, hook>>

\* the pointer is released on the page, or on an element that is gone:
\* no click handler of a picker runs
Release ==
    /\ ~flushing
    /\ pressed # NoTarget
    /\ pressed = OutsideTarget \/ ~Rendered(pressed)
    /\ pressed' = NoTarget
    /\ UNCHANGED providerVars
    /\ UNCHANGED <<isOpen, pendingOpen, docListeners, effects, flushing, osDark,
                   notifs, mounted, hook>>

Clicked(target) ==
    /\ ~flushing
    /\ mounted
    /\ pressed = target
    /\ Rendered(target)
    /\ pressed' = NoTarget

\* variant: the button only opens the list
ToggleClick_OpenOnly(p) ==
    /\ Clicked(ButtonOf(p))
    /\ pendingOpen' = [pendingOpen EXCEPT ![p] = <<TRUE>>]
    /\ UNCHANGED providerVars
    /\ UNCHANGED <<isOpen, docListeners, effects, flushing, osDark, notifs,
                   mounted, hook>>

\* toggle button: onClick={() => setIsOpen(!isOpen)}
ToggleClick(p) ==
    /\ Clicked(ButtonOf(p))
    /\ pendingOpen' = [pendingOpen EXCEPT ![p] = <<~isOpen[p]>>]
    /\ UNCHANGED providerVars
    /\ UNCHANGED <<isOpen, docListeners, effects, flushing, osDark, notifs,
                   mounted, hook>>

\* picker of unnamed/part_001: handleThemeChange(newTheme)
handleThemeChange(newTheme) ==
    /\ Clicked(ItemOf("part_001", newTheme))
    /\ setTheme(newTheme)
    /\ lastSet' = newTheme
    /\ pendingOpen' = [pendingOpen EXCEPT !["part_001"] = <<FALSE>>]
    /\ UNCHANGED <<theme, resolvedTheme, pendingResolved, listeners, rootClasses,
                   isOpen, docListeners, effects, flushing, osDark, notifs,
                   mounted, hook>>

\* variant: the list is not closed after the selection
optionOnClick_KeepOpen(value) ==
    /\ Clicked(ItemOf("ui", value))
    /\ setTheme(value)
    /\ lastSet' = value
    /\ UNCHANGED <<theme, resolvedTheme, pendingResolved, listeners, rootClasses,
                   isOpen, pendingOpen, docListeners, effects, flushing, osDark,
                   notifs, mounted, hook>>

\* components/ui picker: onClick={() => { setTheme(option.value); setIsOpen(false) }}
optionOnClick(value) ==
    /\ Clicked(ItemOf("ui", value))
    /\ setTheme(value)
    /\ lastSet' = value
    /\ pendingOpen' = [pendingOpen EXCEPT !["ui"] = <<FALSE>>]
    /\ UNCHANGED <<theme, resolvedTheme, pendingResolved, listeners, rootClasses,
                   isOpen, docListeners, effects, flushing, osDark, notifs,
                   mounted, hook>>

\* a component calls useTheme(), inside or outside the provider's subtree
UseTheme(scope) ==
    /\ ~flushing
    /\ scope = "inside" => mounted
    /\ hook' = [scope |-> scope, context |-> ContextValue(scope),
                result |-> useTheme(ContextValue(scope))]
    /\ UNCHANGED providerVars
    /\ UNCHANGED pickerVars
    /\ UNCHANGED <<effects, flushing, osDark, notifs, mounted>>

----------------------------------------------------------------------------

Next ==
    \/ RestoreEffect
    \/ ResolveCleanup
    \/ ResolveEffect
    \/ ApplyEffect
    \/ ClickOutsideEffect
    \/ Render
    \/ Unmount
    \/ OsChange
    \/ OsNotification
    \/ \E target \in Targets : MouseDown(target)
    \/ Release
    \/ \E p \in Pickers : ToggleClick(p)
    \/ \E v \in Themes : handleThemeChange(v)
    \/ \E v \in Themes : optionOnClick(v)
    \/ \E scope \in {"inside", "outside"} : UseTheme(scope)

Spec == Init /\ [][Next]_vars

----------------------------------------------------------------------------
TypeOK ==
    /\ theme \in Themes
    /\ resolvedTheme \in Markers
    /\ pendingTheme \in Themes \cup {NoUpdate}
    /\ pendingResolved \in Markers \cup {NoUpdate}
    /\ rootClasses \subseteq Markers
    /\ storage \in StoredValues
    /\ notifs \in 0..MaxNotifs
    /\ Len(listeners) <= 1

----------------------------------------------------------------------------
(* Vocabulary of the properties *)

EffectPending(k) == \E i \in DOMAIN effects : effects[i].kind = k

OsTheme == IF osDark THEN "dark" ELSE "light"

Settled ==
    /\ mounted
    /\ effects = <<>>
    /\ pendingTheme = NoUpdate
    /\ pendingResolved = NoUpdate
    /\ \A p \in Pickers : pendingOpen[p] = <<>>
    /\ notifs = 0

\* the value resolvedTheme holds once the scheduled effects have run and the
\* pending updates are rendered
UpcomingResolved ==
    IF \E i \in DOMAIN effects : effects[i].kind = "resolve"
    THEN LET i == CHOOSE j \in DOMAIN effects : effects[j].kind = "resolve"
         IN  IF effects[i].arg = "system" THEN OsTheme ELSE effects[i].arg
    ELSE Committed(pendingResolved, resolvedTheme)

----------------------------------------------------------------------------
\* C1: with a persisted light, dark or system, once the restore effect has run
\* and its update is rendered, theme is the persisted value, whatever the OS
\* appearance is.
C1_RestoreAdoptsPersisted ==
    (mounted /\ ~EffectPending("restore") /\ pendingTheme = NoUpdate
       /\ storage \in Themes)
    => theme = storage

\* dark was persisted, the OS is light, no setter was called: theme is dark
\* right after the render that follows the restore effect
C1_Witness ==
    /\ mounted /\ lastSet = "none"
    /\ storage = "dark" /\ ~osDark
    /\ theme = "dark" /\ EffectPending("resolve") /\ listeners = <<"system">>

\* C2: with a missing, empty or foreign persisted value theme stays system
\* and no theme update is ever queued; no effect writes to storage.
C2_InvalidPersistedIgnored ==
    /\ []((mounted /\ storage \notin Themes)
            => (theme = "system" /\ pendingTheme = NoUpdate /\ lastSet = "none"))
    /\ [][(effects # <<>> /\ effects' = Tail(effects)) => storage' = storage]_vars

\* a foreign string is persisted, all mount effects have run and are rendered
C2_Witness ==
    /\ Settled /\ storage = "blue" /\ theme = "system"
    /\ listeners = <<"system">> /\ rootClasses # {}

\* C3: once the setter was called with light or dark, that theme is rendered,
\* its resolve effect has run and the update is rendered, resolvedTheme is the
\* value given to the setter, for either OS appearance.
C3_ExplicitResolvesToItself ==
    (mounted /\ lastSet \in Markers /\ theme = lastSet
       /\ ~EffectPending("resolve") /\ pendingResolved = NoUpdate)
    => resolvedTheme = lastSet

\* light was set while the OS is dark and the page was dark before
C3_Witness ==
    /\ Settled /\ lastSet = "light" /\ theme = "light" /\ osDark
    /\ resolvedTheme = "light" /\ rootClasses = {"light"}

\* C4: with theme system, once everything raised is dispatched and rendered,
\* resolvedTheme is the current OS appearance: after the setter was called with
\* system and after every OS change notification.
C4_SystemFollowsOs ==
    (Settled /\ theme = "system") => resolvedTheme = OsTheme

\* theme was system from the start, the page was dark; the OS turned light and
\* the notification has queued the update to light
C4_Witness ==
    /\ mounted /\ lastSet = "none" /\ storage = Null /\ theme = "system"
    /\ resolvedTheme = "dark" /\ rootClasses = {"dark"} /\ effects = <<>>
    /\ ~osDark /\ notifs = 0 /\ pendingResolved = "light"

\* the setter was called with system while the OS is dark
C4_WitnessSet ==
    /\ Settled /\ lastSet = "system" /\ theme = "system" /\ osDark
    /\ resolvedTheme = "dark"

C6_ExactlyOneMarker ==
    \/ Cardinality(rootClasses \cap Markers) = 1
    \/ (rootClasses = {} /\ mounted /\ EffectPending("apply"))

\* the marker was replaced: the first one applied at mount is always light
C6_Witness ==
    /\ rootClasses = {"dark"} /\ resolvedTheme = "dark" /\ Settled

\* C7: after a setter call the persisted value and the in-memory theme (the
\* queued update, or the rendered value once rendered) are the value of the
\* latest call, at every step from the call on.
C7_LastWriteWins ==
    (mounted /\ lastSet # "none")
    => (storage = lastSet /\ Committed(pendingTheme, theme) = lastSet)

\* dark was set, not yet rendered, with an OS change raised in between
C7_Witness ==
    /\ mounted /\ lastSet = "dark" /\ storage = "dark" /\ pendingTheme = "dark"
    /\ theme = "light" /\ notifs > 0

\* C8: a click on an option of an open list calls the setter with the value
\* of that option, which is persisted at once, and queues the close of the
\* list; the close queued for an open list stays until it is rendered.  Both
\* pickers.
C8_SelectSetsAndCloses ==
    [][\A p \in Pickers :
         /\ \A v \in Themes :
              (mounted' /\ isOpen[p] /\ pressed = ItemOf(p, v) /\ pressed' = NoTarget)
              => (pendingTheme' = v /\ storage' = v /\ pendingOpen'[p] = <<FALSE>>)
         /\ (mounted' /\ isOpen[p] /\ pendingOpen[p] = <<FALSE>>)
              => \/ pendingOpen'[p] = <<FALSE>>
                 \/ pendingOpen'[p] = <<>> /\ ~isOpen'[p]]_vars

\* dark was selected in the open list of the ui picker
C8_Witness ==
    /\ mounted /\ isOpen["ui"] /\ pendingOpen["ui"] = <<FALSE>>
    /\ lastSet = "dark" /\ pendingTheme = "dark" /\ storage = "dark"
    /\ theme # "dark" /\ pressed = NoTarget

\* the same in the picker of unnamed/part_001
C8_WitnessPart001 ==
    /\ mounted /\ isOpen["part_001"] /\ pendingOpen["part_001"] = <<FALSE>>
    /\ lastSet = "light" /\ pendingTheme = "light" /\ storage = "light"
    /\ theme # "light" /\ pressed = NoTarget

\* C9: a mousedown outside a picker queues the close of its list when it is
\* open and opens nothing; a mousedown inside the picker, on an item included,
\* leaves isOpen and its queued update as they are.
C9_OutsideCloses ==
    [][(pressed = NoTarget /\ pressed' # NoTarget)
         => \A p \in Pickers :
              /\ isOpen' = isOpen
              /\ (pressed'.picker # p /\ isOpen[p]) => pendingOpen'[p] = <<FALSE>>
              /\ (pressed'.picker # p /\ pendingOpen[p] # <<TRUE>>)
                   => pendingOpen'[p] # <<TRUE>>
              /\ (pressed'.picker = p) => pendingOpen'[p] = pendingOpen[p]]_vars

\* the page was pressed while the list of the ui picker is open
C9_Witness ==
    /\ mounted /\ pressed = OutsideTarget /\ isOpen["ui"]
    /\ pendingOpen["ui"] = <<FALSE>> /\ pendingTheme = NoUpdate

\* an item of the open list is pressed and the list stays open
C9_WitnessInside ==
    /\ mounted /\ pressed = ItemOf("ui", "dark") /\ isOpen["ui"]
    /\ pendingOpen["ui"] = <<>>

\* C10: useTheme outside a provider throws the fixed message and returns
\* nothing; inside a provider it does not throw and returns the provider's
\* theme, resolvedTheme and setter as rendered at the call.
C10_UseThemeGuard ==
    /\ [](/\ hook.scope = "outside"
             => /\ hook.result.threw
                /\ hook.result.message = ErrorMessage
                /\ ~hook.result.value.defined
          /\ hook.scope = "inside"
             => /\ ~hook.result.threw
                /\ hook.result.value.defined)
    /\ [][(hook' # hook /\ hook'.scope = "inside")
            => /\ hook'.result.value.theme = theme'
               /\ hook'.result.value.resolvedTheme = resolvedTheme'
               /\ hook'.result.value.setTheme = "setTheme"]_vars

\* useTheme was called outside while a provider is mounted elsewhere
C10_Witness ==
    /\ hook.scope = "outside" /\ hook.result.threw /\ mounted

\* useTheme was called inside and returned an explicit theme
C10_WitnessInside ==
    /\ hook.scope = "inside" /\ ~hook.result.threw
    /\ hook.result.value.theme = "dark"

\* C11: the toggle button of every picker shows the icon of resolvedTheme:
\* the moon when it is dark, the sun when it is light, also when theme is
\* system.
C11_IconIsResolved ==
    mounted =>
      \A p \in Pickers :
        ButtonIcon(p) = (IF resolvedTheme = "dark" THEN "Moon" ELSE "Sun")

\* C12 as stated: in every state of a mounted provider exactly one OS-change
\* handler is registered, and none once the scope has ended.
C12_AlwaysOneHandler ==
    /\ mounted => Len(listeners) = 1
    /\ ~mounted => Len(listeners) = 0

\* C12 amended: never more than one handler is registered; once the mount
\* effects have run a mounted provider has exactly one in every state outside
\* an effect flush, and it is the one that captured the rendered theme
\* whenever no resolve effect is waiting to run; after the scope has ended
\* none is registered and the dispatch of a notification changes nothing.
C12_MatchedSubscription ==
    /\ [](/\ Len(listeners) <= 1
          /\ (mounted /\ ~flushing /\ ~EffectPending("restore"))
               => Len(listeners) = 1
          /\ (mounted /\ ~EffectPending("resolve")) => listeners = <<theme>>
          /\ ~mounted => listeners = <<>>)
    /\ [][(~mounted /\ notifs' < notifs)
            => UNCHANGED <<theme, resolvedTheme, pendingTheme, pendingResolved,
                           rootClasses, storage, listeners>>]_vars

\* the scope ended after theme had been set; the OS has turned dark since and
\* its notification was dispatched to nobody
C12_Witness ==
    /\ ~mounted /\ listeners = <<>> /\ lastSet = "system" /\ theme = "system"
    /\ resolvedTheme = "light" /\ rootClasses = {"light"} /\ osDark /\ notifs = 0

\* theme was changed by the setter and one handler, of that theme, is registered
C12_WitnessMounted ==
    /\ Settled /\ lastSet = "dark" /\ theme = "dark" /\ listeners = <<"dark">>

\* C13: resolvedTheme is never system, and in every settled state it is theme
\* when theme is light or dark, the OS appearance when theme is system, and
\* the root carries exactly that class.
C13_SettledIsResolved ==
    /\ resolvedTheme \in Markers
    /\ Settled =>
         /\ resolvedTheme = (IF theme = "system" THEN OsTheme ELSE theme)
         /\ rootClasses = {resolvedTheme}

\* settled on dark, set by the setter, while the OS is light
C13_Witness ==
    /\ Settled /\ lastSet = "dark" /\ theme = "dark" /\ ~osDark
    /\ resolvedTheme = "dark" /\ rootClasses = {"dark"} /\ storage = "dark"

\* settled on system, set by the setter, while the OS is dark
C13_WitnessSystem ==
    /\ Settled /\ lastSet = "system" /\ theme = "system" /\ osDark
    /\ resolvedTheme = "dark" /\ rootClasses = {"dark"} /\ storage = "system"

Opposite(marker) == IF marker = "dark" THEN "light" ELSE "dark"

\* C14 as stated: with light or dark persisted at mount (and no setter call
\* since), the root never carries the opposite class.
C14_NeverOppositeMarker ==
    (mounted /\ lastSet = "none" /\ storage \in Markers)
    => Opposite(storage) \notin rootClasses

\* C14, what the startup does guarantee: with light or dark persisted at mount
\* (and no setter call since), whenever no effect and no theme or resolvedTheme update is pending
\* the root carries exactly the persisted class, and theme and resolvedTheme
\* are the persisted value, for either OS appearance.
C14_StartupEndsOnPreference ==
    (mounted /\ lastSet = "none" /\ storage \in Markers
       /\ effects = <<>> /\ pendingTheme = NoUpdate /\ pendingResolved = NoUpdate)
    => (rootClasses = {storage} /\ theme = storage /\ resolvedTheme = storage)

\* dark was persisted, the OS is light, the startup has come to rest on dark
C14_Witness ==
    /\ Settled /\ lastSet = "none" /\ storage = "dark" /\ ~osDark
    /\ rootClasses = {"dark"} /\ theme = "dark" /\ listeners = <<"dark">>

\* C15: the mousedown on the toggle button of a picker leaves its isOpen and
\* its queued update as they are; the click that follows queues the negation
\* of the rendered isOpen, once; the render then commits the queued value, so
\* a closed list is opened and an open list is closed.
C15_ToggleFlipsOnce ==
    [][\A p \in Pickers :
         /\ (pressed = NoTarget /\ pressed' = ButtonOf(p))
              => (isOpen'[p] = isOpen[p] /\ pendingOpen'[p] = pendingOpen[p])
         /\ (mounted' /\ pressed = ButtonOf(p) /\ pressed' = NoTarget)
              => (isOpen'[p] = isOpen[p] /\ pendingOpen'[p] = <<~isOpen[p]>>)
         /\ (mounted' /\ pendingOpen[p] # <<>> /\ pendingOpen'[p] = <<>>)
              => isOpen'[p] = pendingOpen[p][1]]_vars

\* the button of the closed ui picker was clicked: the open is queued
C15_Witness ==
    /\ mounted /\ ~isOpen["ui"] /\ pendingOpen["ui"] = <<TRUE>>
    /\ pressed = NoTarget /\ "ui" \in docListeners

\* the list of the ui picker is open: the queued open was rendered
C15_WitnessOpen ==
    /\ mounted /\ isOpen["ui"] /\ pendingOpen["ui"] = <<>> /\ pressed = NoTarget

\* C16: while the list of a picker is open exactly one option is highlighted,
\* the one of the raw theme; with theme system that is System, whatever
\* resolvedTheme and the OS appearance are.
C16_HighlightIsRawTheme ==
    \A p \in Pickers :
      (mounted /\ isOpen[p])
      => /\ Cardinality(Highlighted(p)) = 1
         /\ theme \in Highlighted(p)
         /\ theme = "system" => Highlighted(p) \cap Markers = {}

\* the list of the ui picker is open with theme system on a dark page
C16_Witness ==
    /\ mounted /\ isOpen["ui"] /\ theme = "system"
    /\ osDark /\ resolvedTheme = "dark" /\ rootClasses = {"dark"}

\* the list of the other picker is open with theme light set, OS dark
C16_WitnessPart001 ==
    /\ mounted /\ isOpen["part_001"] /\ theme = "light" /\ lastSet = "light"
    /\ osDark /\ resolvedTheme = "light"

====
